---- MODULE Spec2Model ----
(***************************************************************************)
(* Model of the FCM notification relay of src/server.js: the three POST    *)
(* endpoints /send, /send-notification and /send-to-user, the helper       *)
(* sendFCMNotification, and the three external services they call (the     *)
(* Firestore `users` collection, the FCM gateway, the Firestore            *)
(* `notifications` collection).                                            *)
(*                                                                         *)
(* An async handler runs atomically between two awaits, so every action    *)
(* of a handler is one such segment.  An external service answers in an    *)
(* action of its own: the answer is stored in reply[r] and the handler's   *)
(* continuation consumes it.                                               *)
(*                                                                         *)
(* The Firestore listener on the `chats` collection (startFirestoreListener*)
(* and handleNewMessage) is in the file but is never started; Spec is the  *)
(* server as it runs, WatcherSpec is the same code with the listener       *)
(* started, and ComposeSpec applies the body composition to texts of every *)
(* length up to MaxTextLen.                                                *)
(***************************************************************************)
EXTENDS Naturals, Sequences, FiniteSets

VARIABLES pc, body, reply, doc, result, resp, ext, users, history, fcmCount, storeChanges,
          listener, timers, chats, tasks, pushed, streamErrors, chatWrites,
          dispatched, newMessages,
          input, composed

\* the listener on the chats collection, the collection, the running
\* handleNewMessage calls and the number of notifications they handed to the
\* gateway for each chat
\* (dispatched counts the calls of handleNewMessage per chat, newMessages the
\* messages clients have written to it)
watcherVars == <<listener, timers, chats, tasks, pushed, streamErrors, chatWrites,
                 dispatched, newMessages>>

\* a message text and the notification body composed from it
composeVars == <<input, composed>>

vars == <<pc, body, reply, doc, result, resp, ext, users, history, fcmCount, storeChanges,
          watcherVars, composeVars>>

(***************************************************************************)
(* Bounds and domains                                                      *)
(***************************************************************************)
\* number of writes other clients make to the users collection during a run
MaxStoreChanges == 1

\* number of writes clients make to the chats collection during a run
MaxChatWrites == 2

\* number of failures of the listener's stream during a run
MaxStreamErrors == 2

\* the requests of a run (each may be in flight together with the others)
Reqs == {"r1", "r2"}

\* message.length > 100
BodyLimit == 100

Absent == "<absent>"      \* undefined: the JSON body has no such field
NonString == "<number>"   \* a truthy JSON value that is not a string

UserIds == {"u1", "u2"}
Tokens == {"tokA", "tokB"}
GatewayErrors == {"registration-token-not-registered", "quota-exceeded"}
StoreErrors == {"UNAVAILABLE"}

\* the longest message text ComposeSpec composes a body from
MaxTextLen == 103

\* a text of n characters
Chars == <<"a", "b", "c">>
Text(n) == [i \in 1..n |-> Chars[(i % 3) + 1]]
AbsentMsg == [type |-> "absent", text |-> <<>>]
NumberMsg == [type |-> "number", text |-> <<>>]
StringMsg(n) == [type |-> "string", text |-> Text(n)]
Messages == {AbsentMsg, NumberMsg, StringMsg(0), StringMsg(BodyLimit), StringMsg(BodyLimit + 1)}

NoBody == [endpoint |-> "none", token |-> Absent, userId |-> Absent, senderId |-> Absent,
           receiverId |-> Absent, message |-> AbsentMsg]

SendBodies ==
    {[NoBody EXCEPT !.endpoint = "/send", !.token = t] : t \in {Absent, "", NonString, "tokA"}}

SendToUserBodies ==
    {[NoBody EXCEPT !.endpoint = "/send-to-user", !.userId = u] : u \in {Absent, "", "u1"}}

\* GET /, GET /health, GET /ping
GetBodies == {[NoBody EXCEPT !.endpoint = p] : p \in {"GET /", "GET /health", "GET /ping"}}

SendNotificationBodies ==
    {[NoBody EXCEPT !.endpoint = "/send-notification", !.senderId = s, !.receiverId = t,
                    !.message = m] :
        s \in {Absent, "", "u1"}, t \in {Absent, "", "u1", "u2"}, m \in Messages}

(***************************************************************************)
(* Values exchanged with the services and with the caller                  *)
(***************************************************************************)
NoReply == [kind |-> "none", exists |-> FALSE, fcmToken |-> Absent, id |-> 0, message |-> ""]
\* DocumentSnapshot returned by users.doc(id).get()
Snapshot(rec) == [NoReply EXCEPT !.kind = "snapshot", !.exists = rec.exists, !.fcmToken = rec.fcmToken]
\* message id returned by admin.messaging().send, reference returned by add()
Resolved(i) == [NoReply EXCEPT !.kind = "resolved", !.id = i]
\* the promise is rejected with an Error carrying a message
Rejected(m) == [NoReply EXCEPT !.kind = "rejected", !.message = m]

NoDoc == [exists |-> FALSE, fcmToken |-> Absent]
UserDoc(t) == [exists |-> TRUE, fcmToken |-> t]
UserRecs == {NoDoc} \cup {UserDoc(t) : t \in {Absent, ""} \cup Tokens}

NoResult == [success |-> FALSE, messageId |-> 0, error |-> Absent]

\* a JSON response body: `fields` are the keys that are present
ErrorJson(m) == [fields |-> {"error"}, success |-> FALSE, messageId |-> 0, error |-> m]
FailJson(m) == [fields |-> {"success", "error"}, success |-> FALSE, messageId |-> 0, error |-> m]
ResultJson(res) ==
    IF res.success
    THEN [fields |-> {"success", "messageId"}, success |-> TRUE, messageId |-> res.messageId,
          error |-> Absent]
    ELSE FailJson(res.error)

\* the bodies of the health endpoints (their values depend on the clock only)
StatusJson(path) ==
    [fields |-> IF path = "GET /" THEN {"status", "service", "timestamp", "version", "endpoints"}
                ELSE IF path = "GET /health"
                THEN {"status", "timestamp", "uptime", "firestoreConnected", "autoListenerEnabled"}
                ELSE {"status", "timestamp", "message", "uptime"},
     success |-> FALSE, messageId |-> 0, error |-> Absent]

\* res.status(code).json(obj); res.json(obj) is status 200
Response(code, json) == [status |-> code, json |-> json]

\* JavaScript !v on the values of the model
Falsy(v) == v = Absent \/ v = ""
FalsyMsg(m) == m.type = "absent" \/ (m.type = "string" /\ m.text = <<>>)

\* an external call of a request: the service, the document id or push token it
\* is addressed to, and the notification body it carries
Call(svc, key, text) == [svc |-> svc, key |-> key, text |-> text]

\* what one segment of a handler (the code between two awaits) does: the calls it
\* issues, the responses it writes and where the handler stands afterwards
Step(p, calls, resps) == [pc |-> p, calls |-> calls, resps |-> resps]
Respond(code, json) == Step("done", <<>>, <<Response(code, json)>>)
Await(p, call) == Step(p, <<call>>, <<>>)

(***************************************************************************)
(* sendFCMNotification                                                     *)
(***************************************************************************)
\* the message is built and handed to admin.messaging().send
FCMSend(token, text) == Call("fcm.send", token, text)

\* FCMReturn with a fixed text in place of error.message
FCMReturn_GenericError(rep) ==
    IF rep.kind = "resolved"
    THEN [success |-> TRUE, messageId |-> rep.id, error |-> Absent]
    ELSE [success |-> FALSE, messageId |-> 0, error |-> "FCM error"]

\* the value sendFCMNotification returns once the gateway has answered
FCMReturn(rep) ==
    IF rep.kind = "resolved"
    THEN [success |-> TRUE, messageId |-> rep.id, error |-> Absent]
    ELSE [success |-> FALSE, messageId |-> 0, error |-> rep.message]

(***************************************************************************)
(* POST /send-notification                                                 *)
(***************************************************************************)
\* MissingFields without the test of message
MissingFields_NoMessage(b) == Falsy(b.senderId) \/ Falsy(b.receiverId)

MissingFields(b) == Falsy(b.senderId) \/ Falsy(b.receiverId) \/ FalsyMsg(b.message)

\* ComposeBody with >= in place of >
ComposeBody_OffByOne(text) ==
    IF Len(text) >= BodyLimit THEN SubSeq(text, 1, BodyLimit) \o <<".", ".", ".">> ELSE text

\* const body = message.length > 100 ? `${message.substring(0, 100)}...` : message
ComposeBody(text) ==
    IF Len(text) > BodyLimit THEN SubSeq(text, 1, BodyLimit) \o <<".", ".", ".">> ELSE text

\* SendNotificationStart that reads the document of the sender
SendNotificationStart_LookupSender(b) ==
    IF MissingFields(b)
    THEN Respond(400, FailJson("senderId, receiverId, and message are required"))
    ELSE IF b.message.type # "string"
    THEN Respond(500, FailJson("message.substring is not a function"))
    ELSE Await("lookup", Call("users.get", b.senderId, <<>>))

\* from the entry of the handler to the await of the users lookup
SendNotificationStart(b) ==
    IF MissingFields(b)
    THEN Respond(400, FailJson("senderId, receiverId, and message are required"))
    ELSE IF b.message.type # "string"
    THEN Respond(500, FailJson("message.substring is not a function"))
    ELSE Await("lookup", Call("users.get", b.receiverId, <<>>))

\* SendNotificationResolved without the test of receiverDoc.exists
SendNotificationResolved_NoExistsCheck(b, rep) ==
    IF rep.kind = "rejected" THEN Respond(500, FailJson(rep.message))
    ELSE IF Falsy(rep.fcmToken) THEN Respond(404, FailJson("Receiver has no FCM token"))
    ELSE Await("send", FCMSend(rep.fcmToken, ComposeBody(b.message.text)))

\* SendNotificationResolved without the test of the token
SendNotificationResolved_NoTokenCheck(b, rep) ==
    IF rep.kind = "rejected" THEN Respond(500, FailJson(rep.message))
    ELSE IF ~rep.exists THEN Respond(404, FailJson("Receiver not found"))
    ELSE Await("send", FCMSend(rep.fcmToken, ComposeBody(b.message.text)))

\* SendNotificationResolved that repeats a failed lookup
SendNotificationResolved_RetryLookup(b, rep) ==
    IF rep.kind = "rejected" THEN Await("lookup", Call("users.get", b.receiverId, <<>>))
    ELSE IF ~rep.exists THEN Respond(404, FailJson("Receiver not found"))
    ELSE IF Falsy(rep.fcmToken) THEN Respond(404, FailJson("Receiver has no FCM token"))
    ELSE Await("send", FCMSend(rep.fcmToken, ComposeBody(b.message.text)))

\* from the answer of the lookup to the await inside sendFCMNotification
SendNotificationResolved(b, rep) ==
    IF rep.kind = "rejected" THEN Respond(500, FailJson(rep.message))
    ELSE IF ~rep.exists THEN Respond(404, FailJson("Receiver not found"))
    ELSE IF Falsy(rep.fcmToken) THEN Respond(404, FailJson("Receiver has no FCM token"))
    ELSE Await("send", FCMSend(rep.fcmToken, ComposeBody(b.message.text)))

\* SendNotificationSent that logs without the test of result.success
SendNotificationSent_AlwaysLog(b, res) ==
    Await("log", Call("notifications.add", b.receiverId, ComposeBody(b.message.text)))

\* SendNotificationSent that answers a failed send with status 500
SendNotificationSent_FailureStatus(b, res) ==
    IF res.success
    THEN Await("log", Call("notifications.add", b.receiverId, ComposeBody(b.message.text)))
    ELSE Respond(500, ResultJson(res))

\* from the return of sendFCMNotification to the await of the history append
SendNotificationSent(b, res) ==
    IF res.success
    THEN Await("log", Call("notifications.add", b.receiverId, ComposeBody(b.message.text)))
    ELSE Respond(200, ResultJson(res))

\* SendNotificationLogged without the inner try/catch around the append
SendNotificationLogged_FailOnHistoryError(res, rep) ==
    IF rep.kind = "rejected" THEN Respond(500, FailJson(rep.message))
    ELSE Respond(200, ResultJson(res))

\* from the answer of the history append to the end of the handler
SendNotificationLogged(res, rep) == Respond(200, ResultJson(res))

\* the document the handler asks the notifications collection to add
HistoryRecord(b, res) ==
    [receiverId |-> b.receiverId, senderId |-> b.senderId, body |-> ComposeBody(b.message.text),
     messageContent |-> b.message.text, fcmMessageId |-> res.messageId]

(***************************************************************************)
(* POST /send                                                              *)
(***************************************************************************)
SendStart(b) ==
    IF Falsy(b.token) THEN Respond(400, FailJson("FCM token is required"))
    ELSE IF b.token = NonString
    THEN Respond(500, FailJson("token.substring is not a function"))
    ELSE Await("send", FCMSend(b.token, <<>>))

SendSent(res) == Respond(200, ResultJson(res))

(***************************************************************************)
(* POST /send-to-user                                                      *)
(***************************************************************************)
SendToUserStart(b) ==
    IF Falsy(b.userId) THEN Respond(400, ErrorJson("userId is required"))
    ELSE Await("lookup", Call("users.get", b.userId, <<>>))

\* SendToUserResolved without `return` before the 404 of an unknown user: the
\* handler goes on, userDoc.data() is undefined and the catch answers again
SendToUserResolved_MissingReturn(rep) ==
    IF rep.kind = "rejected" THEN Respond(500, ErrorJson(rep.message))
    ELSE IF ~rep.exists
    THEN Step("done", <<>>, <<Response(404, ErrorJson("User not found")),
                              Response(500, ErrorJson("Cannot read properties of undefined"))>>)
    ELSE IF Falsy(rep.fcmToken) THEN Respond(404, ErrorJson("User has no FCM token"))
    ELSE Await("send", FCMSend(rep.fcmToken, <<>>))

SendToUserResolved(rep) ==
    IF rep.kind = "rejected" THEN Respond(500, ErrorJson(rep.message))
    ELSE IF ~rep.exists THEN Respond(404, ErrorJson("User not found"))
    ELSE IF Falsy(rep.fcmToken) THEN Respond(404, ErrorJson("User has no FCM token"))
    ELSE Await("send", FCMSend(rep.fcmToken, <<>>))

SendToUserSent(res) == Respond(200, ResultJson(res))

(***************************************************************************)
(* GET /, GET /health, GET /ping                                           *)
(***************************************************************************)
GetStart(b) == Respond(200, StatusJson(b.endpoint))

(***************************************************************************)
(* The state machine                                                       *)
(***************************************************************************)
\* the chats collection holds these documents
ChatIds == {"c1"}
NoChat == [exists |-> FALSE, lastMessage |-> AbsentMsg, lastMessageSender |-> Absent,
           participants |-> <<>>, unread |-> 0]

\* ListenerAtStartup with startFirestoreListener() called in the callback of app.listen
ListenerAtStartup_Started == "connecting"

\* the callback of app.listen does not call startFirestoreListener
ListenerAtStartup == "off"

\* no body has been composed from `input` yet
NotComposed == <<Absent>>

\* the users collection when the server starts
UsersAtStartup == [u \in UserIds |-> IF u = "u1" THEN UserDoc("tokA") ELSE UserDoc("tokB")]

\* the requests, the services and the stores when the server has started
ServerInit ==
    /\ pc = [r \in Reqs |-> "idle"]
    /\ body = [r \in Reqs |-> NoBody]
    /\ reply = [r \in Reqs |-> NoReply]
    /\ doc = [r \in Reqs |-> NoReply]
    /\ result = [r \in Reqs |-> NoResult]
    /\ resp = [r \in Reqs |-> <<>>]
    /\ ext = [r \in Reqs |-> <<>>]
    /\ history = <<>>
    /\ fcmCount = 0
    /\ storeChanges = 0
    /\ timers = 0
    /\ tasks = <<>>
    /\ pushed = [c \in ChatIds |-> 0]
    /\ streamErrors = 0
    /\ chatWrites = 0
    /\ dispatched = [c \in ChatIds |-> 0]

Init ==
    /\ ServerInit
    /\ users = UsersAtStartup
    /\ listener = ListenerAtStartup
    /\ chats = [c \in ChatIds |-> NoChat]
    /\ newMessages = [c \in ChatIds |-> 0]
    /\ input = <<>>
    /\ composed = NotComposed

\* the handler of request r runs one segment
Run(r, step) ==
    /\ pc' = [pc EXCEPT ![r] = step.pc]
    /\ ext' = [ext EXCEPT ![r] = @ \o step.calls]
    /\ resp' = [resp EXCEPT ![r] = @ \o step.resps]
    /\ reply' = [reply EXCEPT ![r] = NoReply]

\* Answered for a server that runs one handler at a time to its end
Answered_Serialized(r, p, endpoint) ==
    /\ pc[r] = p /\ body[r].endpoint = endpoint /\ reply[r] # NoReply
    /\ \A q \in Reqs \ {r} : pc[q] \in {"idle", "done"}

\* the promise awaited by request r has settled: its continuation can run
Answered(r, p, endpoint) ==
    pc[r] = p /\ body[r].endpoint = endpoint /\ reply[r] # NoReply

\* express dispatches an incoming request to its handler
ReceiveSendNotification(r) ==
    /\ pc[r] = "idle"
    /\ \E b \in SendNotificationBodies :
          /\ body' = [body EXCEPT ![r] = b]
          /\ Run(r, SendNotificationStart(b))
    /\ UNCHANGED <<doc, result, users, history, fcmCount, storeChanges, watcherVars, composeVars>>

SendNotificationAfterLookup(r) ==
    /\ Answered(r, "lookup", "/send-notification")
    /\ doc' = [doc EXCEPT ![r] = reply[r]]
    /\ Run(r, SendNotificationResolved(body[r], reply[r]))
    /\ UNCHANGED <<body, result, users, history, fcmCount, storeChanges, watcherVars, composeVars>>

\* SendNotificationAfterSend that deletes the receiver's token when the send failed
SendNotificationAfterSend_ClearToken(r) ==
    /\ Answered(r, "send", "/send-notification")
    /\ result' = [result EXCEPT ![r] = FCMReturn(reply[r])]
    /\ Run(r, SendNotificationSent(body[r], FCMReturn(reply[r])))
    /\ users' = IF FCMReturn(reply[r]).success THEN users
                ELSE [users EXCEPT ![body[r].receiverId] = UserDoc(Absent)]
    /\ UNCHANGED <<body, doc, history, fcmCount, storeChanges, watcherVars, composeVars>>

SendNotificationAfterSend(r) ==
    /\ Answered(r, "send", "/send-notification")
    /\ result' = [result EXCEPT ![r] = FCMReturn(reply[r])]
    /\ Run(r, SendNotificationSent(body[r], FCMReturn(reply[r])))
    /\ UNCHANGED <<body, doc, users, history, fcmCount, storeChanges, watcherVars, composeVars>>

SendNotificationAfterLog(r) ==
    /\ Answered(r, "log", "/send-notification")
    /\ Run(r, SendNotificationLogged(result[r], reply[r]))
    /\ UNCHANGED <<body, doc, result, users, history, fcmCount, storeChanges,
                 watcherVars, composeVars>>

\* the health endpoints answer at once
ReceiveGet(r) ==
    /\ pc[r] = "idle"
    /\ \E b \in GetBodies :
          /\ body' = [body EXCEPT ![r] = b]
          /\ Run(r, GetStart(b))
    /\ UNCHANGED <<doc, result, users, history, fcmCount, storeChanges, watcherVars, composeVars>>

ReceiveSend(r) ==
    /\ pc[r] = "idle"
    /\ \E b \in SendBodies :
          /\ body' = [body EXCEPT ![r] = b]
          /\ Run(r, SendStart(b))
    /\ UNCHANGED <<doc, result, users, history, fcmCount, storeChanges, watcherVars, composeVars>>

SendAfterSend(r) ==
    /\ Answered(r, "send", "/send")
    /\ result' = [result EXCEPT ![r] = FCMReturn(reply[r])]
    /\ Run(r, SendSent(FCMReturn(reply[r])))
    /\ UNCHANGED <<body, doc, users, history, fcmCount, storeChanges, watcherVars, composeVars>>

ReceiveSendToUser(r) ==
    /\ pc[r] = "idle"
    /\ \E b \in SendToUserBodies :
          /\ body' = [body EXCEPT ![r] = b]
          /\ Run(r, SendToUserStart(b))
    /\ UNCHANGED <<doc, result, users, history, fcmCount, storeChanges, watcherVars, composeVars>>

SendToUserAfterLookup(r) ==
    /\ Answered(r, "lookup", "/send-to-user")
    /\ doc' = [doc EXCEPT ![r] = reply[r]]
    /\ Run(r, SendToUserResolved(reply[r]))
    /\ UNCHANGED <<body, result, users, history, fcmCount, storeChanges, watcherVars, composeVars>>

SendToUserAfterSend(r) ==
    /\ Answered(r, "send", "/send-to-user")
    /\ result' = [result EXCEPT ![r] = FCMReturn(reply[r])]
    /\ Run(r, SendToUserSent(FCMReturn(reply[r])))
    /\ UNCHANGED <<body, doc, users, history, fcmCount, storeChanges, watcherVars, composeVars>>

(***************************************************************************)
(* The external services                                                   *)
(***************************************************************************)
Pending(r, p) == pc[r] = p /\ reply[r] = NoReply

\* the call of request r that is waiting for an answer
Last(s) == s[Len(s)]

\* Firestore answers users.doc(id).get(): the document as it is now, or a failure
UsersGetAnswers(r) ==
    /\ Pending(r, "lookup")
    /\ \E rep \in {Snapshot(users[Last(ext[r]).key])} \cup {Rejected(e) : e \in StoreErrors} :
          reply' = [reply EXCEPT ![r] = rep]
    /\ UNCHANGED <<pc, body, doc, result, resp, ext, users, history, fcmCount, storeChanges,
                 watcherVars, composeVars>>

\* the FCM gateway accepts the message and returns its id, or rejects it
FcmAnswers(r) ==
    /\ Pending(r, "send")
    /\ \/ /\ reply' = [reply EXCEPT ![r] = Resolved(fcmCount + 1)]
          /\ fcmCount' = fcmCount + 1
       \/ /\ \E e \in GatewayErrors : reply' = [reply EXCEPT ![r] = Rejected(e)]
          /\ UNCHANGED fcmCount
    /\ UNCHANGED <<pc, body, doc, result, resp, ext, users, history, storeChanges,
                 watcherVars, composeVars>>

\* Firestore adds the document to the notifications collection, or fails
NotificationsAddAnswers(r) ==
    /\ Pending(r, "log")
    /\ \/ /\ history' = Append(history, HistoryRecord(body[r], result[r]))
          /\ reply' = [reply EXCEPT ![r] = Resolved(Len(history) + 1)]
       \/ /\ \E e \in StoreErrors : reply' = [reply EXCEPT ![r] = Rejected(e)]
          /\ UNCHANGED history
    /\ UNCHANGED <<pc, body, doc, result, resp, ext, users, fcmCount, storeChanges,
                 watcherVars, composeVars>>

\* a client application writes a user document (the server never does)
UserStoreChange ==
    /\ storeChanges < MaxStoreChanges
    /\ \E u \in UserIds, rec \in UserRecs :
          /\ rec # users[u]
          /\ users' = [users EXCEPT ![u] = rec]
    /\ storeChanges' = storeChanges + 1
    /\ UNCHANGED <<pc, body, reply, doc, result, resp, ext, history, fcmCount,
                 watcherVars, composeVars>>

Handler(r) ==
    \/ ReceiveGet(r)
    \/ ReceiveSend(r)
    \/ SendAfterSend(r)
    \/ ReceiveSendNotification(r)
    \/ SendNotificationAfterLookup(r)
    \/ SendNotificationAfterSend(r)
    \/ SendNotificationAfterLog(r)
    \/ ReceiveSendToUser(r)
    \/ SendToUserAfterLookup(r)
    \/ SendToUserAfterSend(r)

\* the continuations the event loop runs once an awaited promise has settled
Continue(r) ==
    \/ SendAfterSend(r)
    \/ SendNotificationAfterLookup(r)
    \/ SendNotificationAfterSend(r)
    \/ SendNotificationAfterLog(r)
    \/ SendToUserAfterLookup(r)
    \/ SendToUserAfterSend(r)

Next ==
    \/ \E r \in Reqs : Handler(r)
    \/ \E r \in Reqs : UsersGetAnswers(r)
    \/ \E r \in Reqs : FcmAnswers(r)
    \/ \E r \in Reqs : NotificationsAddAnswers(r)
    \/ UserStoreChange

Spec == Init /\ [][Next]_vars

(***************************************************************************)
(* The composition of the notification body on its own                     *)
(***************************************************************************)
ComposeInit ==
    /\ ServerInit
    /\ users = UsersAtStartup
    /\ listener = ListenerAtStartup
    /\ chats = [c \in ChatIds |-> NoChat]
    /\ newMessages = [c \in ChatIds |-> 0]
    /\ input \in {Text(n) : n \in 0..MaxTextLen}
    /\ composed = NotComposed

Compose ==
    /\ composed = NotComposed
    /\ composed' = ComposeBody(input)
    /\ UNCHANGED <<pc, body, reply, doc, result, resp, ext, users, history, fcmCount,
                   storeChanges, watcherVars, input>>

ComposeSpec == ComposeInit /\ [][Compose]_vars

\* the event loop runs every continuation whose promise has settled; nothing
\* obliges an external service to answer
FairSpec == Spec /\ \A r \in Reqs : WF_vars(Continue(r))

(***************************************************************************)
(* The listener on the chats collection (startFirestoreListener,           *)
(* handleNewMessage), as it runs once startFirestoreListener() is called   *)
(***************************************************************************)
\* the documents clients write to the chats collection
ChatRecs ==
    {[exists |-> TRUE, lastMessage |-> m, lastMessageSender |-> s, participants |-> ps,
      unread |-> n] :
        m \in {AbsentMsg, StringMsg(1), StringMsg(2)}, s \in {Absent, "u1"},
        ps \in {<<"u1", "u2">>, <<"u1">>}, n \in {0, 1}}

\* the order in which a snapshot lists the documents
DocOrder == <<"c1">>

\* a change of a snapshot: change.type, change.doc.id, change.doc.data()
Change(type, id, data) == [type |-> type, id |-> id, data |-> data]

\* chatData.lastMessage && chatData.lastMessageSender, for an added or modified document
Triggers(change) ==
    /\ change.type \in {"added", "modified"}
    /\ ~FalsyMsg(change.data.lastMessage)
    /\ ~Falsy(change.data.lastMessageSender)

\* participants.find((id) => id !== senderId)
FindReceiver(participants, senderId) ==
    LET others == SelectSeq(participants, LAMBDA id : id # senderId)
    IN  IF others = <<>> THEN Absent ELSE others[1]

\* handleNewMessage up to the await of the users lookup: the running call
Task(change) ==
    [chatId |-> change.id, senderId |-> change.data.lastMessageSender,
     text |-> change.data.lastMessage.text,
     receiverId |-> FindReceiver(change.data.participants, change.data.lastMessageSender),
     pc |-> "lookup", token |-> Absent]

\* the snapshot callback: handleNewMessage is called for every change that
\* triggers; a call that finds no receiver returns at once
Calls(changes) == SelectSeq(changes, Triggers)
NewTasks(changes) ==
    LET called == Calls(changes)
        all == [i \in 1..Len(called) |-> Task(called[i])]
    IN  SelectSeq(all, LAMBDA t : ~Falsy(t.receiverId))

CallsFor(changes, c) == Len(SelectSeq(Calls(changes), LAMBDA ch : ch.id = c))

\* ReconnectTimers for an error callback that only logs
ReconnectTimers_None(t) == t

\* the timers that are armed after the error callback: it calls setTimeout once
ReconnectTimers(t) == t + 1

\* a message to notify: both fields present
IsMessage(rec) == rec.exists /\ ~FalsyMsg(rec.lastMessage) /\ ~Falsy(rec.lastMessageSender)

WatcherInit ==
    /\ ServerInit
    /\ users \in {[UsersAtStartup EXCEPT !["u2"] = rec] : rec \in {NoDoc, UserDoc(""), UserDoc("tokB")}}
    /\ listener = "connecting"
    /\ chats \in [ChatIds -> {NoChat} \cup {rec \in ChatRecs : rec.unread = 0}]
    /\ newMessages = [c \in ChatIds |-> IF IsMessage(chats[c]) THEN 1 ELSE 0]
    /\ input = <<>>
    /\ composed = NotComposed

\* the snapshot callback runs on `changes`
OnSnapshot(changes) ==
    /\ tasks' = tasks \o NewTasks(changes)
    /\ dispatched' = [c \in ChatIds |-> dispatched[c] + CallsFor(changes, c)]

\* the first snapshot of a subscription lists every document as added
FirstSnapshot ==
    /\ listener = "connecting"
    /\ listener' = "streaming"
    /\ OnSnapshot(SelectSeq([i \in 1..Len(DocOrder) |->
                                Change("added", DocOrder[i], chats[DocOrder[i]])],
                            LAMBDA ch : ch.data.exists))
    /\ UNCHANGED <<pc, body, reply, doc, result, resp, ext, users, history, fcmCount,
                   storeChanges, timers, chats, pushed, streamErrors, chatWrites, newMessages,
                   composeVars>>

\* a client writes a chat document; a streaming listener gets the change
ChatWrite ==
    /\ chatWrites < MaxChatWrites
    /\ chatWrites' = chatWrites + 1
    /\ \E c \in ChatIds, rec \in ChatRecs :
          /\ rec # chats[c]
          /\ chats' = [chats EXCEPT ![c] = rec]
          /\ newMessages' =
                [newMessages EXCEPT ![c] =
                    IF /\ IsMessage(rec)
                       /\ <<rec.lastMessage, rec.lastMessageSender>> #
                             <<chats[c].lastMessage, chats[c].lastMessageSender>>
                    THEN @ + 1 ELSE @]
          /\ IF listener = "streaming"
             THEN OnSnapshot(<<Change(IF chats[c].exists THEN "modified" ELSE "added", c, rec)>>)
             ELSE UNCHANGED <<tasks, dispatched>>
    /\ UNCHANGED <<pc, body, reply, doc, result, resp, ext, users, history, fcmCount,
                   storeChanges, listener, timers, pushed, streamErrors, composeVars>>

\* the stream fails: the error callback logs and arms the timer
StreamError ==
    /\ listener \in {"connecting", "streaming"}
    /\ streamErrors < MaxStreamErrors
    /\ streamErrors' = streamErrors + 1
    /\ listener' = "disconnected"
    /\ timers' = ReconnectTimers(timers)
    /\ UNCHANGED <<pc, body, reply, doc, result, resp, ext, users, history, fcmCount,
                   storeChanges, chats, tasks, pushed, chatWrites, dispatched, newMessages,
                   composeVars>>

\* setTimeout(startFirestoreListener, 5000) fires: onSnapshot subscribes again
TimerFires ==
    /\ timers > 0
    /\ timers' = timers - 1
    /\ listener' = "connecting"
    /\ UNCHANGED <<pc, body, reply, doc, result, resp, ext, users, history, fcmCount,
                   storeChanges, chats, tasks, pushed, streamErrors, chatWrites, dispatched,
                   newMessages, composeVars>>

Remove(seq, i) == SubSeq(seq, 1, i - 1) \o SubSeq(seq, i + 1, Len(seq))

\* handleNewMessage after the lookup: it returns, or calls sendFCMNotification
HandleNewMessageAfterLookup(i) ==
    /\ i \in 1..Len(tasks)
    /\ tasks[i].pc = "lookup"
    /\ \E rep \in {Snapshot(users[tasks[i].receiverId])} \cup {Rejected(e) : e \in StoreErrors} :
          IF rep.kind = "rejected" \/ ~rep.exists \/ Falsy(rep.fcmToken)
          THEN tasks' = Remove(tasks, i) /\ UNCHANGED pushed
          ELSE /\ tasks' = [tasks EXCEPT ![i].pc = "send", ![i].token = rep.fcmToken]
               /\ pushed' = [pushed EXCEPT ![tasks[i].chatId] = @ + 1]
    /\ UNCHANGED <<pc, body, reply, doc, result, resp, ext, users, history, fcmCount,
                   storeChanges, listener, timers, chats, streamErrors, chatWrites, dispatched,
                   newMessages, composeVars>>

\* handleNewMessage after sendFCMNotification has returned, with a message id
\* or with a failure: it ignores the result, logs and ends
HandleNewMessageAfterSend(i) ==
    /\ i \in 1..Len(tasks)
    /\ tasks[i].pc = "send"
    /\ tasks' = Remove(tasks, i)
    /\ UNCHANGED <<pc, body, reply, doc, result, resp, ext, users, history, fcmCount,
                   storeChanges, listener, timers, chats, pushed, streamErrors, chatWrites,
                   dispatched, newMessages, composeVars>>

\* the most handleNewMessage calls that run at a time
MaxTasks == (MaxStreamErrors + 1) * Len(DocOrder) + MaxChatWrites

WatcherNext ==
    \/ FirstSnapshot
    \/ ChatWrite
    \/ StreamError
    \/ TimerFires
    \/ \E i \in 1..MaxTasks : HandleNewMessageAfterLookup(i)
    \/ \E i \in 1..MaxTasks : HandleNewMessageAfterSend(i)

WatcherSpec == WatcherInit /\ [][WatcherNext]_vars

\* a timer that is armed fires; a subscription that can be established gets
\* its first snapshot
WatcherFairSpec == WatcherSpec /\ WF_vars(TimerFires) /\ SF_vars(FirstSnapshot)

(***************************************************************************)
(* Properties                                                              *)
(***************************************************************************)
\* the positions of ext[r] that are calls of service svc
CallsTo(r, svc) == {i \in 1..Len(ext[r]) : ext[r][i].svc = svc}

Notif(r) == body[r].endpoint = "/send-notification"

\* the only response of a request that has ended
Answer(r) == resp[r][1]

\* C1: a /send-notification request in which senderId, receiverId or message is
\* missing or empty ends with status 400 and has made no external call: no users
\* lookup, no gateway send, no history append.
C1_InvalidRequestRejected ==
    \A r \in Reqs :
        (/\ Notif(r)
         /\ \/ body[r].senderId \in {Absent, ""}
            \/ body[r].receiverId \in {Absent, ""}
            \/ body[r].message \in {AbsentMsg, StringMsg(0)})
        => /\ pc[r] = "done"
           /\ Len(resp[r]) = 1
           /\ Answer(r).status = 400
           /\ Answer(r).json.success = FALSE
           /\ ext[r] = <<>>

C1_Witness ==
    \E r \in Reqs :
        /\ Notif(r) /\ pc[r] = "done"
        /\ body[r].senderId = "u1" /\ body[r].receiverId = "u2"
        /\ body[r].message = StringMsg(0)
        /\ Answer(r).status = 400

\* C2: a valid /send-notification request whose lookup found no user document
\* for the receiver ends with 404 "Receiver not found"; the gateway send is not
\* invoked and no history append is made for it.
C2_UnknownReceiverSkipped ==
    \A r \in Reqs :
        /\ (Notif(r) /\ reply[r].kind = "snapshot" /\ ~reply[r].exists)
              => ext[r] = <<Call("users.get", body[r].receiverId, <<>>)>>
        /\ (Notif(r) /\ doc[r].kind = "snapshot" /\ ~doc[r].exists)
              => /\ pc[r] = "done"
                 /\ resp[r] = <<Response(404, FailJson("Receiver not found"))>>
                 /\ ext[r] = <<Call("users.get", body[r].receiverId, <<>>)>>

C2_Witness ==
    \E r \in Reqs :
        /\ Notif(r) /\ pc[r] = "done"
        /\ doc[r].kind = "snapshot" /\ ~doc[r].exists
        /\ Answer(r).status = 404

\* C3: a valid /send-notification request whose receiver document exists but has
\* an absent or empty fcmToken ends with 404 "Receiver has no FCM token"; the
\* gateway send is not invoked and no history append is made for it.
C3_NoAddressSkipped ==
    \A r \in Reqs :
        /\ (Notif(r) /\ reply[r].kind = "snapshot" /\ reply[r].exists
                /\ reply[r].fcmToken \in {Absent, ""})
              => ext[r] = <<Call("users.get", body[r].receiverId, <<>>)>>
        /\ (Notif(r) /\ doc[r].kind = "snapshot" /\ doc[r].exists
                /\ doc[r].fcmToken \in {Absent, ""})
              => /\ pc[r] = "done"
                 /\ resp[r] = <<Response(404, FailJson("Receiver has no FCM token"))>>
                 /\ ext[r] = <<Call("users.get", body[r].receiverId, <<>>)>>

C3_Witness ==
    \E r \in Reqs :
        /\ Notif(r) /\ pc[r] = "done"
        /\ doc[r].kind = "snapshot" /\ doc[r].exists /\ doc[r].fcmToken = ""
        /\ Answer(r).status = 404

\* C4: when the gateway send succeeded, the caller receives status 200 with
\* success and the gateway's messageId, whether the history append succeeded or
\* failed; a failed append never shows in the response.
C4_HistoryFailureNotSurfaced ==
    \A r \in Reqs :
        (Notif(r) /\ pc[r] = "done" /\ result[r].success)
        => resp[r] = <<Response(200, [fields |-> {"success", "messageId"}, success |-> TRUE,
                                      messageId |-> result[r].messageId, error |-> Absent])>>

\* the append of the request failed: the collection holds no record of its send
C4_Witness ==
    \E r \in Reqs :
        /\ Notif(r) /\ pc[r] = "done" /\ result[r].success
        /\ Len(ext[r]) = 3 /\ ext[r][3].svc = "notifications.add"
        /\ \A i \in 1..Len(history) : history[i].fcmMessageId # result[r].messageId
        /\ Answer(r).status = 200 /\ Answer(r).json.success

\* C5: after a successful gateway send the response is written without waiting
\* for the history append: while the append is pending, the response is already out.
C5_ResponseNotDelayedByHistory ==
    \A r \in Reqs : (Notif(r) /\ pc[r] = "log") => Len(resp[r]) = 1

\* C6: a rejection by the gateway becomes the value {success: false, error} that
\* sendFCMNotification returns, with the gateway's error message unchanged; the
\* handler goes on to answer with that value (it is not thrown into its catch).
C6_GatewayRejectionIsResult ==
    [][\A r \in Reqs :
          (pc[r] = "send" /\ reply[r].kind = "rejected" /\ pc'[r] # "send")
          => /\ result'[r] = [success |-> FALSE, messageId |-> 0, error |-> reply[r].message]
             /\ pc'[r] = "done"
             /\ resp'[r] = <<Response(200, FailJson(reply[r].message))>>
             /\ ext'[r] = ext[r]]_vars

C6_Witness ==
    \E r \in Reqs :
        /\ pc[r] = "done" /\ ~result[r].success
        /\ result[r].error = "quota-exceeded"
        /\ Answer(r).json.error = "quota-exceeded"

C8_PipelineOrder ==
    /\ \A r \in Reqs :
          Notif(r)
          => /\ Len(ext[r]) <= 3
             /\ \A i \in 1..Len(ext[r]) :
                   ext[r][i].svc = <<"users.get", "fcm.send", "notifications.add">>[i]
             /\ Len(ext[r]) >= 2
                   => /\ doc[r].kind = "snapshot" /\ doc[r].exists
                      /\ doc[r].fcmToken \notin {Absent, ""}
                      /\ ext[r][2].key = doc[r].fcmToken
             /\ Len(ext[r]) = 3 => (result[r].success /\ result[r].messageId \in 1..fcmCount)
             /\ (pc[r] = "done" /\ Answer(r).status # 200) => Len(ext[r]) <= 1
             /\ (pc[r] = "done" /\ ~Answer(r).json.success) => Len(ext[r]) <= 2
    /\ \A i \in 1..Len(history) :
          \E r \in Reqs : /\ Notif(r) /\ Len(ext[r]) = 3
                          /\ history[i].fcmMessageId = result[r].messageId

C8_Witness ==
    \E r \in Reqs : Notif(r) /\ pc[r] = "done" /\ Len(ext[r]) = 3 /\ Len(history) > 0

\* C9: no request of any endpoint makes more than one users lookup, more than one
\* gateway send or more than one history append; a request whose lookup failed
\* makes no gateway send and is answered with status 500 and the failure's reason.
C9_NoRetry ==
    \A r \in Reqs :
        /\ \A svc \in {"users.get", "fcm.send", "notifications.add"} :
              Cardinality(CallsTo(r, svc)) <= 1
        /\ doc[r].kind = "rejected"
              => /\ pc[r] = "done"
                 /\ CallsTo(r, "fcm.send") = {}
                 /\ Len(resp[r]) = 1
                 /\ Answer(r).status = 500
                 /\ "error" \in Answer(r).json.fields
                 /\ Answer(r).json.error = doc[r].message

C9_Witness ==
    \E r \in Reqs :
        /\ Notif(r) /\ pc[r] = "done" /\ doc[r].kind = "rejected"
        /\ Len(ext[r]) = 1 /\ Answer(r).status = 500

\* C10: every accepted request eventually receives a response, even if an
\* external service never answers.
C10_EveryRequestAnswered ==
    \A r \in Reqs : (pc[r] # "idle") ~> (pc[r] = "done")

\* C11: the listener on the chats collection is never started, so a notification
\* goes to the gateway only in a step of a request's handler: a step in which a
\* store changes (a user document written, a record added to the notifications
\* collection) hands nothing to the gateway, and a request makes at most one send.
C11_ListenerNeverActive ==
    [][/\ listener = "off" /\ listener' = "off"
       /\ timers' = 0 /\ tasks' = <<>> /\ \A c \in ChatIds : pushed'[c] = 0
       /\ (users' # users \/ history' # history) => ext' = ext
       /\ \A r \in Reqs :
             /\ ext'[r] # ext[r] => (pc[r] # "done" /\ (pc[r] = "idle" \/ reply[r] # NoReply))
             /\ Cardinality({i \in 1..Len(ext'[r]) : ext'[r][i].svc = "fcm.send"}) <= 1]_vars

C11_Witness ==
    \E r \in Reqs :
        /\ listener = "off" /\ \A c \in ChatIds : pushed[c] = 0
        /\ Notif(r) /\ pc[r] = "done" /\ Cardinality(CallsTo(r, "fcm.send")) = 1
        /\ Len(history) > 0
        /\ storeChanges > 0

\* C12: a request suspended on an external call that has not answered blocks no
\* other request: a new request of any endpoint (a health check too) is accepted,
\* another request's pending call can be answered, and another request whose call
\* was answered runs its continuation.
C12_NoBlocking ==
    \A r \in Reqs : \A q \in Reqs \ {r} :
        (pc[r] \in {"lookup", "send", "log"} /\ reply[r] = NoReply)
        => /\ pc[q] = "idle"
                 => /\ ENABLED ReceiveGet(q)
                    /\ ENABLED ReceiveSend(q)
                    /\ ENABLED ReceiveSendNotification(q)
                    /\ ENABLED ReceiveSendToUser(q)
           /\ (pc[q] = "lookup" /\ reply[q] = NoReply) => ENABLED UsersGetAnswers(q)
           /\ (pc[q] = "send" /\ reply[q] = NoReply) => ENABLED FcmAnswers(q)
           /\ (pc[q] = "log" /\ reply[q] = NoReply) => ENABLED NotificationsAddAnswers(q)
           /\ (pc[q] \in {"lookup", "send", "log"} /\ reply[q] # NoReply) => ENABLED Continue(q)

\* r waits for the gateway, q (for another receiver) has its lookup answered
C12_Witness ==
    \E r \in Reqs : \E q \in Reqs \ {r} :
        /\ Notif(r) /\ pc[r] = "send" /\ reply[r] = NoReply
        /\ Notif(q) /\ pc[q] = "lookup" /\ reply[q].kind = "snapshot"
        /\ body[q].receiverId # body[r].receiverId

\* C13: the server never writes a user document or a chat document (they change
\* only when a client writes them), and its only write to the store is the
\* append of one record to the notifications collection, by a request whose send
\* succeeded; the records already there stay as they are.
C13_StoreFrame ==
    [][/\ storeChanges' = storeChanges => users' = users
       /\ chatWrites' = chatWrites => chats' = chats
       /\ \/ history' = history
          \/ \E r \in Reqs :
                /\ Notif(r) /\ pc[r] = "log" /\ result[r].success
                /\ ext[r][3].svc = "notifications.add"
                /\ \A i \in 1..Len(history) : history[i].fcmMessageId # result[r].messageId
                /\ Len(history') = Len(history) + 1
                /\ SubSeq(history', 1, Len(history)) = history
                /\ history'[Len(history')].fcmMessageId = result[r].messageId]_vars

\* two requests have read user documents and appended a record each
C13_Witness ==
    /\ Len(history) = 2
    /\ storeChanges = 0
    /\ users = UsersAtStartup
    /\ \A r \in Reqs : Notif(r) /\ pc[r] = "done" /\ Len(ext[r]) = 3

\* C14: the composed body is the message text when the text has at most 100
\* characters, and its first 100 characters followed by three dots when it has
\* more; a body has at most 103 characters.
C14_BodyTruncation ==
    composed # NotComposed
    => /\ Len(input) <= 100 => composed = input
       /\ Len(input) > 100
             => /\ Len(composed) = 103
                /\ \A i \in 1..100 : composed[i] = input[i]
                /\ \A i \in 101..103 : composed[i] = "."
       /\ Len(composed) <= 103

C14_Witness ==
    /\ Len(input) = 102
    /\ Len(composed) = 103
    /\ composed[100] = input[100] /\ composed[102] = "."

\* C15: every /send-notification request whose notification reaches the gateway
\* has a non-empty message text and a senderId different from its receiverId.
C15_SentEventWellFormed ==
    \A r \in Reqs :
        (Notif(r) /\ CallsTo(r, "fcm.send") # {})
        => /\ body[r].message.type = "string" /\ body[r].message.text # <<>>
           /\ body[r].senderId # body[r].receiverId

\* C18: a request to /send, /send-notification or /send-to-user has written no
\* response while its handler runs and exactly one when it has ended; a handler
\* that has not ended waits for a call it has issued (at most three in a row), and
\* once that call is answered its continuation can run.
C18_ExactlyOneResponse ==
    \A r \in Reqs :
        body[r].endpoint \in {"/send", "/send-notification", "/send-to-user"}
        => /\ pc[r] \in {"lookup", "send", "log", "done"}
           /\ Len(resp[r]) = IF pc[r] = "done" THEN 1 ELSE 0
           /\ Len(ext[r]) <= 3
           /\ pc[r] # "done"
                 => /\ ext[r] # <<>>
                    /\ ext[r][Len(ext[r])].svc =
                          CASE pc[r] = "lookup" -> "users.get"
                            [] pc[r] = "send" -> "fcm.send"
                            [] pc[r] = "log" -> "notifications.add"
                    /\ reply[r] # NoReply => ENABLED Continue(r)
                    /\ reply[r] = NoReply
                          => \/ ENABLED UsersGetAnswers(r)
                             \/ ENABLED FcmAnswers(r)
                             \/ ENABLED NotificationsAddAnswers(r)

C18_Witness ==
    \E r \in Reqs : \E q \in Reqs \ {r} :
        /\ body[r].endpoint = "/send-to-user" /\ pc[r] = "done"
        /\ doc[r].kind = "snapshot" /\ ~doc[r].exists
        /\ Len(resp[r]) = 1 /\ Answer(r).status = 404
        /\ body[q].endpoint = "/send" /\ pc[q] = "done"
        /\ Len(resp[q]) = 1 /\ Answer(q).status = 200

\* C19: whatever other requests and writers of the users collection do, the
\* lookup of a /send-notification request reads the document of its own receiver,
\* its send goes to the token that lookup returned (the value read then, also when
\* the document has changed since), its result carries the id the gateway gave to
\* its own send, and the record appended for it carries its own sender, receiver
\* and that id.
C19_OwnAddress ==
    [][\A r \in Reqs :
          Notif(r)
          => /\ (pc[r] = "lookup" /\ reply[r] = NoReply /\ reply'[r].kind = "snapshot")
                   => reply'[r] = Snapshot(users[body[r].receiverId])
             /\ (pc[r] = "lookup" /\ pc'[r] = "send")
                   => /\ reply[r].kind = "snapshot"
                      /\ Len(ext'[r]) = 2
                      /\ ext'[r][2].svc = "fcm.send"
                      /\ ext'[r][2].key = reply[r].fcmToken
                      /\ ext'[r][2].key \in Tokens
             /\ Len(ext[r]) >= 2 => (Len(ext'[r]) >= 2 /\ ext'[r][2] = ext[r][2])
             /\ Len(ext'[r]) >= 2 => ext'[r][2].key = doc'[r].fcmToken
             /\ (pc[r] = "send" /\ reply[r] = NoReply /\ reply'[r].kind = "resolved")
                   => (reply'[r].id = fcmCount + 1 /\ fcmCount' = fcmCount + 1)
             /\ (pc[r] = "send" /\ pc'[r] = "log") => result'[r].messageId = reply[r].id
             /\ (pc[r] = "log" /\ reply[r] = NoReply /\ reply'[r].kind = "resolved")
                   => /\ Len(history') = Len(history) + 1
                      /\ history'[Len(history')].senderId = body[r].senderId
                      /\ history'[Len(history')].receiverId = body[r].receiverId
                      /\ history'[Len(history')].fcmMessageId = result[r].messageId]_vars

\* two requests for different receivers were sent to different tokens; the
\* document of the first one's receiver changed after it was read
C19_Witness ==
    \E r \in Reqs : \E q \in Reqs \ {r} :
        /\ Notif(r) /\ Notif(q)
        /\ Len(ext[r]) = 3 /\ Len(ext[q]) >= 2
        /\ body[r].receiverId # body[q].receiverId
        /\ ext[r][2].key # ext[q][2].key
        /\ users[body[r].receiverId] # UserDoc(ext[r][2].key)
        /\ Len(history) > 0

====
